---- MODULE Spec2Model ----
(***************************************************************************)
(* Model of the Settlers 4 ASI loader (S4_ASI_Loader/dllmain.cpp).         *)
(*                                                                         *)
(* Two threads take part: T0, the host main thread, which runs DllMain     *)
(* under the loader lock and later the patched call site (WaitForPlugins), *)
(* and T1, the worker created by DllMain, which runs AsiLoad.  AsiLoad     *)
(* also runs on T0 when the worker cannot be created.                      *)
(*                                                                         *)
(* File names are sequences of one-character strings so that the code-unit *)
(* comparison of std::wstring and the wildcard match of PathMatchSpec can  *)
(* be computed the way the code computes them.                             *)
(***************************************************************************)
EXTENDS Integers, Sequences, FiniteSets, TLC

VARIABLES
    found,                      \* entries returned by FindFirstFile/FindNextFile
    pc0,                        \* position of T0 (host main thread)
    asi_thread,                 \* thread executing AsiLoad: "none", "T0", "T1"
    asi_pc,                     \* position inside AsiLoad
    plugins,                    \* std::set<std::wstring> plugins, in iteration order
    asi_idx,                    \* position of the range-for over plugins
    initialise_vectors,         \* std::vector<InitAsiCall> (a callback is named by its plugin)
    loader_init_thread_handle,  \* "nullptr" or "hThread"
    patch_result,               \* outcome of patch.patch(): "none", "ok", "fail"
    create_result,              \* "none", "ok", "fail" (CreateThread), "nopin" (GetModuleHandleExW failed)
    mod_refs,                   \* extra references held on the loader module
    mapped,                     \* history: LoadLibrary attempts, in order
    dialogs,                    \* history: message boxes shown, in order
    invoked,                    \* history: InitAsi invocations, in order
    trig_entries,               \* times the host executed the patched call site
    join_status,                \* status of the join of the current trigger entry
    tr_idx,                     \* range-for position in WaitForPlugins
    tr_end,                     \* end() captured when the range-for started
    trigger_rets,               \* history: values returned by WaitForPlugins
    tr_log,                     \* history: per trigger entry, what the join saw
    dllmain_ret,                \* "none", or the BOOL DllMain returned: "TRUE", "FALSE"
    race,                       \* push_back ran while the trigger iterated the vector
    exited,                     \* "no", "ExitProcess", "crash"
    open_handles,               \* OS thread handles created and not closed
    patch_obj,                  \* the local hlib::CallPatch of DllMain: "none", "alive", "destroyed"
    asi_starts                  \* history: the threads AsiLoad was started on

vars == <<found, pc0, asi_thread, asi_pc, plugins, asi_idx, initialise_vectors,
          loader_init_thread_handle, patch_result, create_result, mod_refs,
          mapped, dialogs, invoked, trig_entries, join_status, tr_idx, tr_end,
          trigger_rets, tr_log, dllmain_ret, race, exited,
          open_handles, patch_obj, asi_starts>>

----------------------------------------------------------------------------
(* Bounds *)

MaxEntries == 3     \* directory entries returned by one enumeration
MaxTriggers == 2    \* executions of the patched call site by the host

----------------------------------------------------------------------------
(* Characters and file names *)

Ext == <<".", "a", "s", "i">>

NameUniverse ==
    { <<"a">> \o Ext,
      <<"A">> \o Ext,
      <<"B">> \o Ext,
      <<"c", ".", "A", "S", "I">>,
      <<"f", "o", "o">> \o Ext \o <<".", "t", "x", "t">>,
      <<"x">> \o Ext }

\* UTF-16 code unit of a character
CodeUnit(c) ==
    CASE c = "*" -> 42 [] c = "." -> 46 [] c = "?" -> 63
      [] c = "A" -> 65 [] c = "B" -> 66 [] c = "I" -> 73 [] c = "S" -> 83
      [] c = "a" -> 97 [] c = "c" -> 99 [] c = "f" -> 102 [] c = "i" -> 105
      [] c = "o" -> 111 [] c = "s" -> 115 [] c = "t" -> 116 [] c = "x" -> 120

\* upper-case folding of a code unit (ASCII letters)
ToUpper(u) == IF u >= 97 /\ u <= 122 THEN u - 32 ELSE u

\* #define PLUGINFILTER L"*.asi"
PLUGINFILTER == <<"*">> \o Ext

\* std::wstring operator< : lexicographic comparison of code units
RECURSIVE WLess(_, _)
WLess(a, b) ==
    IF b = <<>> THEN FALSE
    ELSE IF a = <<>> THEN TRUE
    ELSE IF CodeUnit(Head(a)) < CodeUnit(Head(b)) THEN TRUE
    ELSE IF CodeUnit(Head(a)) > CodeUnit(Head(b)) THEN FALSE
    ELSE WLess(Tail(a), Tail(b))

\* case-insensitive comparison, as a std::set with a case-folding comparator would use
RECURSIVE WLessNoCase(_, _)
WLessNoCase(a, b) ==
    IF b = <<>> THEN FALSE
    ELSE IF a = <<>> THEN TRUE
    ELSE IF ToUpper(CodeUnit(Head(a))) < ToUpper(CodeUnit(Head(b))) THEN TRUE
    ELSE IF ToUpper(CodeUnit(Head(a))) > ToUpper(CodeUnit(Head(b))) THEN FALSE
    ELSE WLessNoCase(Tail(a), Tail(b))

\* a variant: a set ordered by the case-insensitive comparison keeps one of two
\* names that differ only in letter case
RECURSIVE SetOrderNoCase(_)
SetOrderNoCase(S) ==
    IF S = {} THEN <<>>
    ELSE LET m == CHOOSE x \in S : \A y \in S : ~WLessNoCase(y, x)
             same == { y \in S : ~WLessNoCase(m, y) }
         IN  <<m>> \o SetOrderNoCase(S \ same)

\* iteration order of a std::set<std::wstring>: ascending by operator<
RECURSIVE SetOrder(_)
SetOrder(S) ==
    IF S = {} THEN <<>>
    ELSE LET m == CHOOSE x \in S : \A y \in S \ {x} : WLess(x, y)
         IN  <<m>> \o SetOrder(S \ {m})

\* PathMatchSpec(name, spec): wildcard match of the whole name, ignoring case
RECURSIVE PathMatchSpec(_, _)
PathMatchSpec(s, p) ==
    IF p = <<>> THEN s = <<>>
    ELSE IF Head(p) = "*"
         THEN PathMatchSpec(s, Tail(p)) \/ (s # <<>> /\ PathMatchSpec(Tail(s), p))
    ELSE IF Head(p) = "?"
         THEN s # <<>> /\ PathMatchSpec(Tail(s), Tail(p))
    ELSE /\ s # <<>>
         /\ ToUpper(CodeUnit(Head(s))) = ToUpper(CodeUnit(Head(p)))
         /\ PathMatchSpec(Tail(s), Tail(p))

\* a variant of the enumeration loop that forgets the directory test
AcceptedNoDirTest(entries) ==
    { e.name : e \in { f \in entries : PathMatchSpec(f.name, PLUGINFILTER) } }

\* the names the enumeration loop puts into the set
Accepted(entries) ==
    { e.name : e \in { f \in entries : ~f.dir /\ PathMatchSpec(f.name, PLUGINFILTER) } }

----------------------------------------------------------------------------
(* Helpers on the histories *)

Range(s) == { s[i] : i \in 1..Len(s) }

Dialog(kind, file, thread) ==
    [kind |-> kind, file |-> file, thread |-> thread,
     lock |-> pc0 \in {"attach", "dm_patched", "dm_asi", "dm_ret"}]

\* T0 is inside DllMain: the loader lock is held
LoaderLock == pc0 \in {"attach", "dm_patched", "dm_asi", "dm_ret"}

\* the thread running AsiLoad may take a step
AsiCanRun ==
    /\ exited = "no"
    /\ \/ asi_thread = "T0" /\ pc0 = "dm_asi"
       \/ asi_thread = "T1" /\ ~LoaderLock

----------------------------------------------------------------------------
(* Initial state: the library has been mapped, DllMain has not run yet *)

Init ==
    /\ found \in { D \in SUBSET [name : NameUniverse, dir : BOOLEAN] :
                      /\ Cardinality(D) <= MaxEntries
                      /\ \A e1, e2 \in D : e1.name = e2.name => e1 = e2 }
    /\ pc0 = "attach"
    /\ asi_thread = "none"
    /\ asi_pc = "idle"
    /\ plugins = <<>>
    /\ asi_idx = 1
    /\ initialise_vectors = <<>>
    /\ loader_init_thread_handle = "nullptr"
    /\ patch_result = "none"
    /\ create_result = "none"
    /\ mod_refs = 0
    /\ mapped = <<>>
    /\ dialogs = <<>>
    /\ invoked = <<>>
    /\ trig_entries = 0
    /\ join_status = "none"
    /\ tr_idx = 1
    /\ tr_end = 0
    /\ trigger_rets = <<>>
    /\ tr_log = <<>>
    /\ dllmain_ret = "none"
    /\ race = FALSE
    /\ exited = "no"
    /\ open_handles = 0
    /\ patch_obj = "none"
    /\ asi_starts = <<>>

----------------------------------------------------------------------------
(* DllMain, DLL_PROCESS_ATTACH branch (T0, loader lock held) *)

\* a variant that does not report a failed patch
DllMainPatchSilent ==
    /\ pc0 = "attach" /\ exited = "no"
    /\ \E ok \in BOOLEAN : patch_result' = IF ok THEN "ok" ELSE "fail"
    /\ pc0' = "dm_patched"
    /\ patch_obj' = "alive"
    /\ UNCHANGED <<found, asi_thread, asi_pc, plugins, asi_idx, initialise_vectors,
                   loader_init_thread_handle, create_result, mod_refs, mapped, dialogs,
                   invoked, trig_entries, join_status, tr_idx, tr_end, trigger_rets,
                   dllmain_ret, race, exited, tr_log,
                   open_handles, asi_starts>>

\* hlib::CallPatch(S4_Main + 0x5C489, &WaitForPlugins).patch(), dialog on failure
DllMainPatch ==
    /\ pc0 = "attach" /\ exited = "no"
    /\ \E ok \in BOOLEAN :
          /\ patch_result' = IF ok THEN "ok" ELSE "fail"
          /\ dialogs' = IF ok THEN dialogs
                        ELSE Append(dialogs, Dialog("patch", <<>>, "T0"))
    /\ pc0' = "dm_patched"
    /\ patch_obj' = "alive"
    /\ UNCHANGED <<found, asi_thread, asi_pc, plugins, asi_idx, initialise_vectors,
                   loader_init_thread_handle, create_result, mod_refs, mapped,
                   invoked, trig_entries, join_status, tr_idx, tr_end, trigger_rets,
                   dllmain_ret, race, exited, tr_log,
                   open_handles, asi_starts>>

\* a variant that also falls through to AsiLoad(nullptr) after creating the worker
DllMainWorkerAlsoLoads ==
    /\ pc0 = "dm_patched" /\ exited = "no"
    /\ mod_refs' = mod_refs + 1
    /\ loader_init_thread_handle' = "hThread"
    /\ create_result' = "ok"
    /\ asi_thread' = "T1"
    /\ asi_pc' = "start"
    /\ pc0' = "dm_ret"
    /\ open_handles' = open_handles + 1
    /\ asi_starts' = asi_starts \o <<"T1", "T0">>
    /\ UNCHANGED <<found, plugins, asi_idx, initialise_vectors, patch_result, mapped,
                   dialogs, invoked, trig_entries, join_status, tr_idx, tr_end,
                   trigger_rets, dllmain_ret, race, exited, tr_log, patch_obj>>

\* GetModuleHandleExW succeeds and CreateThread returns a handle
DllMainWorker ==
    /\ pc0 = "dm_patched" /\ exited = "no"
    /\ mod_refs' = mod_refs + 1
    /\ loader_init_thread_handle' = "hThread"
    /\ create_result' = "ok"
    /\ asi_thread' = "T1"
    /\ asi_pc' = "start"
    /\ pc0' = "dm_ret"
    /\ open_handles' = open_handles + 1
    /\ asi_starts' = Append(asi_starts, "T1")
    /\ UNCHANGED <<found, plugins, asi_idx, initialise_vectors, patch_result, mapped,
                   dialogs, invoked, trig_entries, join_status, tr_idx, tr_end,
                   trigger_rets, dllmain_ret, race, exited, tr_log, patch_obj>>

\* a variant that forgets the synchronous AsiLoad when CreateThread fails
DllMainCreateFailNoLoad ==
    /\ pc0 = "dm_patched" /\ exited = "no"
    /\ mod_refs' = mod_refs + 1
    /\ create_result' = "fail"
    /\ pc0' = "dm_ret"
    /\ UNCHANGED <<found, asi_thread, asi_pc, plugins, asi_idx, initialise_vectors,
                   loader_init_thread_handle, patch_result, mapped, dialogs, invoked,
                   trig_entries, join_status, tr_idx, tr_end, trigger_rets,
                   dllmain_ret, race, exited, tr_log,
                   open_handles, patch_obj, asi_starts>>

\* GetModuleHandleExW succeeds, CreateThread returns nullptr: AsiLoad(nullptr) on T0
DllMainCreateFail ==
    /\ pc0 = "dm_patched" /\ exited = "no"
    /\ mod_refs' = mod_refs + 1
    /\ loader_init_thread_handle' = "nullptr"
    /\ create_result' = "fail"
    /\ asi_thread' = "T0"
    /\ asi_pc' = "start"
    /\ pc0' = "dm_asi"
    /\ asi_starts' = Append(asi_starts, "T0")
    /\ UNCHANGED <<found, plugins, asi_idx, initialise_vectors, patch_result, mapped,
                   dialogs, invoked, trig_entries, join_status, tr_idx, tr_end,
                   trigger_rets, dllmain_ret, race, exited, tr_log,
                   open_handles, patch_obj>>

\* GetModuleHandleExW fails: AsiLoad(nullptr) on T0
DllMainPinFail ==
    /\ pc0 = "dm_patched" /\ exited = "no"
    /\ create_result' = "nopin"
    /\ asi_thread' = "T0"
    /\ asi_pc' = "start"
    /\ pc0' = "dm_asi"
    /\ asi_starts' = Append(asi_starts, "T0")
    /\ UNCHANGED <<found, plugins, asi_idx, initialise_vectors, loader_init_thread_handle,
                   patch_result, mod_refs, mapped, dialogs, invoked, trig_entries,
                   join_status, tr_idx, tr_end, trigger_rets, dllmain_ret, race, exited, tr_log,
                   open_handles, patch_obj>>

\* a variant that forgets FreeLibrary(mod) after the synchronous load
DllMainReturnNoFree ==
    /\ exited = "no"
    /\ pc0 = "dm_ret" \/ (pc0 = "dm_asi" /\ asi_pc = "done")
    /\ mod_refs' = mod_refs
    /\ dllmain_ret' = "TRUE"
    /\ pc0' = "host"
    /\ patch_obj' = "destroyed"
    /\ UNCHANGED <<found, asi_thread, asi_pc, plugins, asi_idx, initialise_vectors,
                   loader_init_thread_handle, patch_result, create_result, mapped,
                   dialogs, invoked, trig_entries, join_status, tr_idx, tr_end,
                   trigger_rets, race, exited, tr_log,
                   open_handles, asi_starts>>

\* FreeLibrary(mod) after the synchronous load when CreateThread failed; the local
\* patch object goes out of scope; return TRUE
DllMainReturn ==
    /\ exited = "no"
    /\ pc0 = "dm_ret" \/ (pc0 = "dm_asi" /\ asi_pc = "done")
    /\ mod_refs' = IF create_result = "fail" THEN mod_refs - 1 ELSE mod_refs
    /\ dllmain_ret' = "TRUE"
    /\ pc0' = "host"
    /\ patch_obj' = "destroyed"
    /\ UNCHANGED <<found, asi_thread, asi_pc, plugins, asi_idx, initialise_vectors,
                   loader_init_thread_handle, patch_result, create_result, mapped,
                   dialogs, invoked, trig_entries, join_status, tr_idx, tr_end,
                   trigger_rets, race, exited, tr_log,
                   open_handles, asi_starts>>

----------------------------------------------------------------------------
(* AsiLoad (on T1, or on T0 inside DllMain) *)

\* a variant of ERROR_BOX that forgets ExitProcess and goes on to the enumeration
AsiLoadFatalContinues ==
    /\ AsiCanRun /\ asi_pc = "start"
    /\ \E what \in {"module handle", "file name"} :
          dialogs' = Append(dialogs, Dialog("fatal", <<what>>, asi_thread))
    /\ plugins' = SetOrder(Accepted(found))
    /\ asi_idx' = 1
    /\ asi_pc' = "load"
    /\ UNCHANGED <<found, pc0, asi_thread, initialise_vectors,
                   loader_init_thread_handle, patch_result, create_result, mod_refs,
                   mapped, invoked, trig_entries, join_status, tr_idx, tr_end,
                   trigger_rets, dllmain_ret, race, exited, tr_log,
                   open_handles, patch_obj, asi_starts>>

\* GetModuleHandle(NULL) or GetModuleFileName fails: ERROR_BOX, ExitProcess(0)
AsiLoadFatal ==
    /\ AsiCanRun /\ asi_pc = "start"
    /\ \E what \in {"module handle", "file name"} :
          dialogs' = Append(dialogs, Dialog("fatal", <<what>>, asi_thread))
    /\ exited' = "ExitProcess"
    /\ UNCHANGED <<found, pc0, asi_thread, asi_pc, plugins, asi_idx, initialise_vectors,
                   loader_init_thread_handle, patch_result, create_result, mod_refs,
                   mapped, invoked, trig_entries, join_status, tr_idx, tr_end,
                   trigger_rets, dllmain_ret, race, tr_log,
                   open_handles, patch_obj, asi_starts>>

\* the enumeration loop: skip directories and names PathMatchSpec rejects
AsiLoadFind ==
    /\ AsiCanRun /\ asi_pc = "start"
    /\ plugins' = SetOrder(Accepted(found))
    /\ asi_idx' = 1
    /\ asi_pc' = "load"
    /\ UNCHANGED <<found, pc0, asi_thread, initialise_vectors, loader_init_thread_handle,
                   patch_result, create_result, mod_refs, mapped, dialogs, invoked,
                   trig_entries, join_status, tr_idx, tr_end, trigger_rets,
                   dllmain_ret, race, exited, tr_log,
                   open_handles, patch_obj, asi_starts>>

\* a variant that leaves the loop at the first plugin that fails to map, silently
AsiLoadPluginStops ==
    /\ AsiCanRun /\ asi_pc = "load" /\ asi_idx <= Len(plugins)
    /\ \E res \in {"fail", "noinit", "init"} :
          /\ mapped' = Append(mapped, [name |-> plugins[asi_idx], res |-> res,
                                      lock |-> LoaderLock])
          /\ initialise_vectors' = IF res = "init"
                                   THEN Append(initialise_vectors, plugins[asi_idx])
                                   ELSE initialise_vectors
          /\ race' = (race \/ (res = "init" /\ pc0 = "tr_fire"))
          /\ asi_idx' = IF res = "fail" THEN Len(plugins) + 1 ELSE asi_idx + 1
    /\ UNCHANGED <<found, pc0, asi_thread, asi_pc, plugins, loader_init_thread_handle,
                   patch_result, create_result, mod_refs, dialogs, invoked, trig_entries,
                   join_status, tr_idx, tr_end, trigger_rets, dllmain_ret, exited, tr_log,
                   open_handles, patch_obj, asi_starts>>

\* a variant that calls InitAsi as soon as the plugin is mapped
AsiLoadPluginCallsInit ==
    /\ AsiCanRun /\ asi_pc = "load" /\ asi_idx <= Len(plugins)
    /\ \E res \in {"fail", "noinit", "init"} :
          /\ mapped' = Append(mapped, [name |-> plugins[asi_idx], res |-> res,
                                      lock |-> LoaderLock])
          /\ dialogs' = IF res = "fail"
                        THEN Append(dialogs, Dialog("load", plugins[asi_idx], asi_thread))
                        ELSE dialogs
          /\ invoked' = IF res = "init"
                        THEN Append(invoked, [cb |-> plugins[asi_idx], thread |-> asi_thread,
                                              entry |-> trig_entries])
                        ELSE invoked
    /\ asi_idx' = asi_idx + 1
    /\ UNCHANGED <<found, pc0, asi_thread, asi_pc, plugins, initialise_vectors,
                   loader_init_thread_handle, patch_result, create_result, mod_refs,
                   trig_entries, join_status, tr_idx, tr_end, trigger_rets,
                   dllmain_ret, race, exited, tr_log,
                   open_handles, patch_obj, asi_starts>>

\* a variant that records the result of GetProcAddress without testing it
AsiLoadPluginPushesNull ==
    /\ AsiCanRun /\ asi_pc = "load" /\ asi_idx <= Len(plugins)
    /\ \E res \in {"fail", "noinit", "init"} :
          /\ mapped' = Append(mapped, [name |-> plugins[asi_idx], res |-> res,
                                      lock |-> LoaderLock])
          /\ dialogs' = IF res = "fail"
                        THEN Append(dialogs, Dialog("load", plugins[asi_idx], asi_thread))
                        ELSE dialogs
          /\ initialise_vectors' = IF res # "fail"
                                   THEN Append(initialise_vectors, plugins[asi_idx])
                                   ELSE initialise_vectors
          /\ race' = (race \/ (res = "init" /\ pc0 = "tr_fire"))
    /\ asi_idx' = asi_idx + 1
    /\ UNCHANGED <<found, pc0, asi_thread, asi_pc, plugins, loader_init_thread_handle,
                   patch_result, create_result, mod_refs, invoked, trig_entries,
                   join_status, tr_idx, tr_end, trigger_rets, dllmain_ret, exited, tr_log,
                   open_handles, patch_obj, asi_starts>>

\* one iteration of the range-for over plugins: LoadLibrary, dialog or GetProcAddress
AsiLoadPlugin ==
    /\ AsiCanRun /\ asi_pc = "load" /\ asi_idx <= Len(plugins)
    /\ \E res \in {"fail", "noinit", "init"} :
          /\ mapped' = Append(mapped, [name |-> plugins[asi_idx], res |-> res,
                                      lock |-> LoaderLock])
          /\ dialogs' = IF res = "fail"
                        THEN Append(dialogs, Dialog("load", plugins[asi_idx], asi_thread))
                        ELSE dialogs
          /\ initialise_vectors' = IF res = "init"
                                   THEN Append(initialise_vectors, plugins[asi_idx])
                                   ELSE initialise_vectors
          /\ race' = (race \/ (res = "init" /\ pc0 = "tr_fire"))
    /\ asi_idx' = asi_idx + 1
    /\ UNCHANGED <<found, pc0, asi_thread, asi_pc, plugins, loader_init_thread_handle,
                   patch_result, create_result, mod_refs, invoked, trig_entries,
                   join_status, tr_idx, tr_end, trigger_rets, dllmain_ret, exited, tr_log,
                   open_handles, patch_obj, asi_starts>>

\* return 0: on T1 the thread ends and its handle becomes signaled
AsiLoadReturn ==
    /\ AsiCanRun /\ asi_pc = "load" /\ asi_idx > Len(plugins)
    /\ asi_pc' = "done"
    /\ UNCHANGED <<found, pc0, asi_thread, plugins, asi_idx, initialise_vectors,
                   loader_init_thread_handle, patch_result, create_result, mod_refs,
                   mapped, dialogs, invoked, trig_entries, join_status, tr_idx, tr_end,
                   trigger_rets, tr_log, dllmain_ret, race, exited,
                   open_handles, patch_obj, asi_starts>>

----------------------------------------------------------------------------
(* The host and the trigger WaitForPlugins (T0, loader lock released) *)

\* the host executes the CALL at S4_Main + 0x5C489, redirected by the patch
HostCallSite ==
    /\ pc0 = "host" /\ exited = "no"
    /\ patch_result = "ok"
    /\ trig_entries < MaxTriggers
    /\ trig_entries' = trig_entries + 1
    /\ join_status' = "none"
    /\ pc0' = "tr_enter"
    /\ UNCHANGED <<found, asi_thread, asi_pc, plugins, asi_idx, initialise_vectors,
                   loader_init_thread_handle, patch_result, create_result, mod_refs,
                   mapped, dialogs, invoked, tr_idx, tr_end, trigger_rets,
                   dllmain_ret, race, exited, tr_log,
                   open_handles, patch_obj, asi_starts>>

\* a variant that fires no callback when the join did not return WAIT_OBJECT_0
TriggerJoinGivesUp ==
    /\ pc0 = "tr_enter" /\ exited = "no"
    /\ loader_init_thread_handle # "nullptr"
    /\ \E status \in {"WAIT_OBJECT_0", "WAIT_FAILED"} :
          /\ status = "WAIT_OBJECT_0" => asi_pc = "done"
          /\ join_status' = status
          /\ dialogs' = IF status # "WAIT_OBJECT_0"
                        THEN Append(dialogs, Dialog("join", <<status>>, "T0"))
                        ELSE dialogs
    /\ loader_init_thread_handle' = "nullptr"
    /\ tr_log' = Append(tr_log, [status |-> join_status', end |-> Len(initialise_vectors),
                                 asi_done |-> asi_pc = "done"])
    /\ tr_idx' = 1
    /\ tr_end' = IF join_status' = "WAIT_OBJECT_0" THEN Len(initialise_vectors) ELSE 0
    /\ race' = FALSE
    /\ pc0' = "tr_fire"
    /\ UNCHANGED <<found, asi_thread, asi_pc, plugins, asi_idx, initialise_vectors,
                   patch_result, create_result, mod_refs, mapped, invoked, trig_entries,
                   trigger_rets, dllmain_ret, exited,
                   open_handles, patch_obj, asi_starts>>

\* handle != nullptr: WaitForSingleObject(handle, INFINITE), dialog unless WAIT_OBJECT_0
TriggerJoin ==
    /\ pc0 = "tr_enter" /\ exited = "no"
    /\ loader_init_thread_handle # "nullptr"
    /\ \E status \in {"WAIT_OBJECT_0", "WAIT_FAILED"} :
          /\ status = "WAIT_OBJECT_0" => asi_pc = "done"
          /\ join_status' = status
          /\ dialogs' = IF status # "WAIT_OBJECT_0"
                        THEN Append(dialogs, Dialog("join", <<status>>, "T0"))
                        ELSE dialogs
    /\ loader_init_thread_handle' = "nullptr"
    /\ tr_log' = Append(tr_log, [status |-> join_status', end |-> Len(initialise_vectors),
                                 asi_done |-> asi_pc = "done"])
    /\ tr_idx' = 1
    /\ tr_end' = Len(initialise_vectors)
    /\ race' = FALSE
    /\ pc0' = "tr_fire"
    /\ UNCHANGED <<found, asi_thread, asi_pc, plugins, asi_idx, initialise_vectors,
                   patch_result, create_result, mod_refs, mapped, invoked, trig_entries,
                   trigger_rets, dllmain_ret, exited,
                   open_handles, patch_obj, asi_starts>>

\* a variant that stays silent when there is no worker handle
TriggerNoHandleSilent ==
    /\ pc0 = "tr_enter" /\ exited = "no"
    /\ loader_init_thread_handle = "nullptr"
    /\ join_status' = "nohandle"
    /\ tr_log' = Append(tr_log, [status |-> "nohandle", end |-> Len(initialise_vectors),
                                 asi_done |-> asi_pc = "done"])
    /\ tr_idx' = 1
    /\ tr_end' = Len(initialise_vectors)
    /\ race' = FALSE
    /\ pc0' = "tr_fire"
    /\ UNCHANGED <<found, asi_thread, asi_pc, plugins, asi_idx, initialise_vectors,
                   loader_init_thread_handle, patch_result, create_result, mod_refs,
                   mapped, dialogs, invoked, trig_entries, trigger_rets, dllmain_ret, exited,
                   open_handles, patch_obj, asi_starts>>

\* handle == nullptr: dialog "asi loader thread failed to correctly initialize"
TriggerNoHandle ==
    /\ pc0 = "tr_enter" /\ exited = "no"
    /\ loader_init_thread_handle = "nullptr"
    /\ join_status' = "nohandle"
    /\ dialogs' = Append(dialogs, Dialog("nohandle", <<>>, "T0"))
    /\ tr_log' = Append(tr_log, [status |-> "nohandle", end |-> Len(initialise_vectors),
                                 asi_done |-> asi_pc = "done"])
    /\ tr_idx' = 1
    /\ tr_end' = Len(initialise_vectors)
    /\ race' = FALSE
    /\ pc0' = "tr_fire"
    /\ UNCHANGED <<found, asi_thread, asi_pc, plugins, asi_idx, initialise_vectors,
                   loader_init_thread_handle, patch_result, create_result, mod_refs,
                   mapped, invoked, trig_entries, trigger_rets, dllmain_ret, exited,
                   open_handles, patch_obj, asi_starts>>

\* one iteration of the range-for over initialise_vectors: init()
TriggerInvoke ==
    /\ pc0 = "tr_fire" /\ exited = "no"
    /\ tr_idx <= tr_end
    /\ invoked' = Append(invoked, [cb |-> initialise_vectors[tr_idx], thread |-> "T0",
                                   entry |-> trig_entries])
    /\ tr_idx' = tr_idx + 1
    /\ UNCHANGED <<found, pc0, asi_thread, asi_pc, plugins, asi_idx, initialise_vectors,
                   loader_init_thread_handle, patch_result, create_result, mod_refs,
                   mapped, dialogs, trig_entries, join_status, tr_end, trigger_rets,
                   dllmain_ret, race, exited, tr_log,
                   open_handles, patch_obj, asi_starts>>

\* the vector was reallocated under the iterators: the read may fault
TriggerCrash ==
    /\ pc0 = "tr_fire" /\ exited = "no"
    /\ race
    /\ tr_idx <= tr_end
    /\ exited' = "crash"
    /\ UNCHANGED <<found, pc0, asi_thread, asi_pc, plugins, asi_idx, initialise_vectors,
                   loader_init_thread_handle, patch_result, create_result, mod_refs,
                   mapped, dialogs, invoked, trig_entries, join_status, tr_idx, tr_end,
                   trigger_rets, dllmain_ret, race, tr_log,
                   open_handles, patch_obj, asi_starts>>

\* a variant that reports failure to the host unless the join was clean
WaitForPluginsResultByStatus == IF join_status = "WAIT_OBJECT_0" THEN 1 ELSE 0

\* return 1
WaitForPluginsResult == 1

\* the range-for is over: return to the host
TriggerReturn ==
    /\ pc0 = "tr_fire" /\ exited = "no"
    /\ tr_idx > tr_end
    /\ trigger_rets' = Append(trigger_rets, WaitForPluginsResult % 256)
    /\ pc0' = "host"
    /\ UNCHANGED <<found, asi_thread, asi_pc, plugins, asi_idx, initialise_vectors,
                   loader_init_thread_handle, patch_result, create_result, mod_refs,
                   mapped, dialogs, invoked, trig_entries, join_status, tr_idx, tr_end,
                   dllmain_ret, race, exited, tr_log,
                   open_handles, patch_obj, asi_starts>>

----------------------------------------------------------------------------

Next ==
    \/ DllMainPatch
    \/ DllMainWorker
    \/ DllMainCreateFail
    \/ DllMainPinFail
    \/ DllMainReturn
    \/ AsiLoadFatal
    \/ AsiLoadFind
    \/ AsiLoadPlugin
    \/ AsiLoadReturn
    \/ HostCallSite
    \/ TriggerJoin
    \/ TriggerNoHandle
    \/ TriggerInvoke
    \/ TriggerCrash
    \/ TriggerReturn

Spec == Init /\ [][Next]_vars

----------------------------------------------------------------------------
(* Vocabulary of the properties *)

\* the callbacks invoked during the k-th execution of the patched call site
FiredIn(k) ==
    LET s == SelectSeq(invoked, LAMBDA r : r.entry = k)
    IN  [i \in 1..Len(s) |-> s[i].cb]

\* the names LoadLibrary was called with, in order
MappedNames == [i \in 1..Len(mapped) |-> mapped[i].name]

\* the plugins that mapped and export InitAsi, in the order they were mapped
MappedWithInit ==
    LET s == SelectSeq(mapped, LAMBDA m : m.res = "init")
    IN  [i \in 1..Len(s) |-> s[i].name]

\* number of dialogs of a kind shown for a file
DialogCount(kind, file) ==
    Cardinality({ i \in DOMAIN dialogs : dialogs[i].kind = kind /\ dialogs[i].file = file })

\* the name ends in ".asi", letter case ignored
IsAsiName(n) ==
    /\ Len(n) >= Len(Ext)
    /\ \A i \in 1..Len(Ext) :
          ToUpper(CodeUnit(n[Len(n) - Len(Ext) + i])) = ToUpper(CodeUnit(Ext[i]))

\* the enumerated entries that are files named *.asi
AsiFiles == { e.name : e \in { f \in found : ~f.dir /\ IsAsiName(f.name) } }

\* case-insensitive lexicographic "less than"
RECURSIVE CILess(_, _)
CILess(a, b) ==
    IF b = <<>> THEN FALSE
    ELSE IF a = <<>> THEN TRUE
    ELSE IF ToUpper(CodeUnit(Head(a))) < ToUpper(CodeUnit(Head(b))) THEN TRUE
    ELSE IF ToUpper(CodeUnit(Head(a))) > ToUpper(CodeUnit(Head(b))) THEN FALSE
    ELSE CILess(Tail(a), Tail(b))

\* every plugin found has been mapped, successfully, and exports InitAsi
AllMappedWithInit ==
    /\ asi_pc = "done"
    /\ \A i \in DOMAIN mapped : mapped[i].res = "init"

----------------------------------------------------------------------------
(* C1 *)

\* C1: when every plugin found maps and exports InitAsi, the callbacks a
\* trigger entry invokes are the plugin filenames in case-insensitive
\* ascending lexicographic order.
C1_CaseInsensitiveOrder ==
    \A k \in 1..Len(trigger_rets) :
       (AllMappedWithInit /\ tr_log[k].asi_done) =>
          /\ Range(FiredIn(k)) = Range(plugins)
          /\ Len(FiredIn(k)) = Len(plugins)
          /\ \A i, j \in 1..Len(FiredIn(k)) :
                i < j => ~CILess(FiredIn(k)[j], FiredIn(k)[i])

----------------------------------------------------------------------------
(* C2 *)

\* C2: however often the host executes the patched call site, each plugin's
\* InitAsi is invoked at most once.
C2_AtMostOnce ==
    \A n \in Range(initialise_vectors) :
       Cardinality({ i \in DOMAIN invoked : invoked[i].cb = n }) <= 1

----------------------------------------------------------------------------
(* C3 *)

\* C3: no InitAsi is invoked before the host has reached the patched call
\* site, and every invocation happens on T0, on the worker path and on both
\* synchronous fallback paths.
C3_OnMainThreadAfterCallSite ==
    /\ trig_entries = 0 => invoked = <<>>
    /\ \A i \in DOMAIN invoked :
          /\ invoked[i].thread = "T0"
          /\ invoked[i].entry >= 1
          /\ invoked[i].entry <= trig_entries

C3_Witness ==
    /\ create_result = "ok"
    /\ asi_thread = "T1"
    /\ Len(invoked) >= 2

----------------------------------------------------------------------------
(* C4 *)

\* C4: whenever the trigger is reading the callback list or invoking a
\* callback, AsiLoad has finished, whatever status the join returned.
C4_WorkerFinishedBeforeRead ==
    pc0 = "tr_fire" => asi_pc = "done"

----------------------------------------------------------------------------
(* C5 *)

\* C5: the files AsiLoad attempts to map are exactly the enumerated entries
\* that are not directories and whose name matches *.asi; foo.asi.txt and a
\* directory x.asi are never mapped.
C5_MapsExactlyAsiFiles ==
    /\ Range(MappedNames) \subseteq AsiFiles
    /\ asi_pc = "done" => Range(MappedNames) = AsiFiles

C5_Witness ==
    /\ asi_pc = "done"
    /\ mapped # <<>>
    /\ \E e \in found : e.dir /\ IsAsiName(e.name)
    /\ \E e \in found : ~e.dir /\ ~IsAsiName(e.name)

----------------------------------------------------------------------------
(* C6 *)

\* C6: a plugin that fails to map gets exactly one dialog and no callback,
\* every later plugin is still attempted in discovery order, and the
\* callbacks of the plugins that mapped are recorded and fire from the
\* trigger.
C6_FailedPluginDoesNotBlock ==
    /\ \A i \in DOMAIN mapped :
          /\ mapped[i].name = plugins[i]
          /\ mapped[i].res = "fail" =>
                /\ DialogCount("load", mapped[i].name) = 1
                /\ mapped[i].name \notin Range(initialise_vectors)
          /\ mapped[i].res # "fail" => DialogCount("load", mapped[i].name) = 0
    /\ asi_pc = "done" => Len(mapped) = Len(plugins)
    /\ initialise_vectors = MappedWithInit
    /\ \A k \in 1..Len(trigger_rets) :
          tr_log[k].asi_done => FiredIn(k) = MappedWithInit

C6_Witness ==
    /\ Len(trigger_rets) >= 1
    /\ tr_log[1].asi_done
    /\ \E i, j \in DOMAIN mapped :
          /\ i < j
          /\ mapped[i].res = "fail"
          /\ mapped[j].res = "init"
          /\ mapped[j].name \in Range(FiredIn(1))

----------------------------------------------------------------------------
(* C7 *)

\* C7: when CreateThread fails, discovery and load of all plugins are complete
\* when DllMain returns, and each later trigger entry invokes every recorded
\* callback in discovery order.
C7_SynchronousFallbackComplete ==
    create_result = "fail" =>
       /\ dllmain_ret # "none" =>
             /\ asi_pc = "done"
             /\ asi_thread = "T0"
             /\ Range(MappedNames) = AsiFiles
       /\ \A k \in 1..Len(tr_log) : tr_log[k].asi_done
       /\ \A k \in 1..Len(trigger_rets) :
             /\ FiredIn(k) = initialise_vectors
             /\ FiredIn(k) = MappedWithInit
             /\ \A i, j \in 1..Len(FiredIn(k)) : i < j => WLess(FiredIn(k)[i], FiredIn(k)[j])

C7_Witness ==
    /\ create_result = "fail"
    /\ dllmain_ret = "TRUE"
    /\ Len(trigger_rets) >= 1
    /\ Len(FiredIn(1)) >= 2

----------------------------------------------------------------------------
(* C8 *)

\* the case of C8: CreateThread failed, the patch installed, every plugin mapped
C8_Case ==
    /\ create_result = "fail"
    /\ patch_result = "ok"
    /\ asi_pc = "done"
    /\ \A i \in DOMAIN mapped : mapped[i].res # "fail"

----------------------------------------------------------------------------
(* C9 *)

\* C9: when the patch fails a dialog is shown, DllMain still returns TRUE,
\* AsiLoad still runs (handed to the worker or completed synchronously), and
\* the trigger is never entered and no InitAsi is ever invoked.
C9_PatchFailureDegrades ==
    patch_result = "fail" =>
       /\ DialogCount("patch", <<>>) = 1
       /\ dllmain_ret # "none" =>
             /\ dllmain_ret = "TRUE"
             /\ (asi_thread = "T1" /\ asi_pc # "idle") \/ asi_pc = "done"
       /\ pc0 \notin {"tr_enter", "tr_fire"}
       /\ trig_entries = 0
       /\ tr_log = <<>>
       /\ invoked = <<>>

C9_Witness ==
    /\ patch_result = "fail"
    /\ dllmain_ret = "TRUE"
    /\ asi_thread = "T1"
    /\ asi_pc = "done"
    /\ \E i \in DOMAIN mapped : mapped[i].res = "init"

----------------------------------------------------------------------------
(* C10 *)

\* C10: every return of WaitForPlugins yields the same nonzero byte, after a
\* clean join, after a join with another status, and without a worker handle.
C10_SameTruthyReturn ==
    /\ Len(trigger_rets) <= Len(tr_log)
    /\ \A i \in DOMAIN trigger_rets :
          /\ trigger_rets[i] \in 1..255
          /\ \A j \in DOMAIN trigger_rets : trigger_rets[i] = trigger_rets[j]

C10_Witness ==
    /\ Len(trigger_rets) = 2
    /\ tr_log[1].status = "WAIT_FAILED"
    /\ tr_log[2].status = "nohandle"

C10_WitnessCleanJoin ==
    /\ Len(trigger_rets) >= 1
    /\ tr_log[1].status = "WAIT_OBJECT_0"

----------------------------------------------------------------------------
(* Further vocabulary *)

\* position of an element in a sequence without repetitions (0 when absent)
PosIn(seq, x) ==
    IF \E i \in DOMAIN seq : seq[i] = x
    THEN CHOOSE i \in DOMAIN seq : seq[i] = x
    ELSE 0

\* number of dialogs of a kind
DialogKindCount(kind) ==
    Cardinality({ i \in DOMAIN dialogs : dialogs[i].kind = kind })

\* the trigger entries that waited on the worker handle
Joins == { k \in DOMAIN tr_log : tr_log[k].status # "nohandle" }

\* a sequence has no element twice
NoRepeat(seq) == \A i, j \in DOMAIN seq : seq[i] = seq[j] => i = j

----------------------------------------------------------------------------
(* C11 *)

\* C11: the worker handle is joined exactly once, when the trigger fires, and
\* is then closed: once the trigger has returned no open worker handle remains
\* and no second join occurs.
C11_JoinedOnceThenClosed ==
    /\ Cardinality(Joins) <= 1
    /\ (create_result = "ok" /\ Len(trigger_rets) >= 1) =>
          /\ Cardinality(Joins) = 1
          /\ loader_init_thread_handle = "nullptr"
          /\ open_handles = 0

----------------------------------------------------------------------------
(* C12 *)

\* C12: while T0 is inside DllMain (loader lock held) it never loads a library,
\* never shows a dialog and never waits for T1.
C12_OnlyKernelCallsUnderLock ==
    /\ \A i \in DOMAIN dialogs : ~dialogs[i].lock
    /\ \A i \in DOMAIN mapped : ~mapped[i].lock
    /\ LoaderLock => tr_log = <<>>

----------------------------------------------------------------------------
(* C13 *)

\* C13: a trigger entry whose join returns a status other than signaled shows
\* exactly one dialog and still invokes every callback the list held at that
\* moment, in list order, before it returns.
C13_FiresAfterJoinAnomaly ==
    \A k \in DOMAIN tr_log :
       tr_log[k].status = "WAIT_FAILED" =>
          /\ DialogKindCount("join") = 1
          /\ DialogKindCount("join") + DialogKindCount("nohandle") = Len(tr_log)
          /\ Len(FiredIn(k)) <= tr_log[k].end
          /\ FiredIn(k) = SubSeq(initialise_vectors, 1, Len(FiredIn(k)))
          /\ k <= Len(trigger_rets) => Len(FiredIn(k)) = tr_log[k].end

C13_Witness ==
    /\ Len(trigger_rets) >= 1
    /\ tr_log[1].status = "WAIT_FAILED"
    /\ ~tr_log[1].asi_done
    /\ tr_log[1].end >= 2
    /\ Len(FiredIn(1)) >= 2

----------------------------------------------------------------------------
(* C14 *)

\* C14: after AsiLoad completes the callback list is the discovery order
\* restricted to the plugins that mapped and export InitAsi; a plugin that
\* maps without InitAsi adds no callback and causes no dialog.
C14_CallbackListIsRestriction ==
    /\ \A i \in DOMAIN mapped :
          mapped[i].res = "noinit" =>
             /\ mapped[i].name \notin Range(initialise_vectors)
             /\ DialogCount("load", mapped[i].name) = 0
    /\ \A i, j \in DOMAIN initialise_vectors :
          i < j => PosIn(plugins, initialise_vectors[i]) < PosIn(plugins, initialise_vectors[j])
    /\ asi_pc = "done" =>
          initialise_vectors =
             SelectSeq(plugins, LAMBDA n : \E i \in DOMAIN mapped :
                                              mapped[i].name = n /\ mapped[i].res = "init")

C14_Witness ==
    /\ asi_pc = "done"
    /\ initialise_vectors # <<>>
    /\ \E i, j \in DOMAIN mapped :
          i < j /\ mapped[i].res = "noinit" /\ mapped[j].res = "init"

----------------------------------------------------------------------------
(* C15 *)

\* C15: once the patch is installed the call site stays redirected and the
\* patch descriptor is never uninstalled or destroyed.
C15_DescriptorOwnedForLifetime ==
    patch_result = "ok" => patch_obj = "alive"

----------------------------------------------------------------------------
(* C16 *)

\* C16: when the patch installed, AsiLoad terminated and a trigger entry has
\* returned to the host, that entry has invoked every callback of the callback
\* list, in list order.
C16_TriggerFiresWholeList ==
    \A k \in 1..Len(trigger_rets) :
       (patch_result = "ok" /\ asi_pc = "done" /\ exited = "no") =>
          FiredIn(k) = initialise_vectors

----------------------------------------------------------------------------
(* C17 *)

UpperA == <<"A">> \o Ext
LowerA == <<"a">> \o Ext

\* the enumeration returned the files A.asi and a.asi
BothCasesFound ==
    /\ [name |-> UpperA, dir |-> FALSE] \in found
    /\ [name |-> LowerA, dir |-> FALSE] \in found

\* both names occur in the sequence, A.asi first
BothInOrder(seq) ==
    /\ PosIn(seq, UpperA) >= 1
    /\ PosIn(seq, UpperA) < PosIn(seq, LowerA)

\* C17: A.asi and a.asi are two discovery entries; both are mapped, always in
\* the same relative order, and both callbacks fire.
C17_CaseVariantsBothLoaded ==
    BothCasesFound =>
       /\ asi_pc \in {"load", "done"} => BothInOrder(plugins)
       /\ asi_pc = "done" => BothInOrder(MappedNames)
       /\ \A k \in 1..Len(trigger_rets) :
             (tr_log[k].asi_done /\ {UpperA, LowerA} \subseteq Range(MappedWithInit))
                => BothInOrder(FiredIn(k))

C17_Witness ==
    /\ BothCasesFound
    /\ Len(trigger_rets) >= 1
    /\ tr_log[1].asi_done
    /\ BothInOrder(FiredIn(1))

----------------------------------------------------------------------------
(* C18 *)

\* C18: when AsiLoad cannot get the host module handle or file name it shows a
\* dialog and terminates the process; no plugin is mapped and no InitAsi is
\* recorded or invoked.
C18_FatalBootstrapTerminates ==
    /\ exited = "ExitProcess" => DialogKindCount("fatal") = 1
    /\ DialogKindCount("fatal") >= 1 =>
          /\ exited = "ExitProcess"
          /\ DialogKindCount("fatal") = 1
          /\ dialogs[Len(dialogs)].kind = "fatal"
          /\ plugins = <<>>
          /\ mapped = <<>>
          /\ initialise_vectors = <<>>
          /\ invoked = <<>>

C18_Witness ==
    /\ exited = "ExitProcess"
    /\ DialogKindCount("fatal") = 1
    /\ AsiFiles # {}
    /\ asi_thread = "T1"

----------------------------------------------------------------------------
(* C19 *)

\* C19: on every path through the process-attach branch AsiLoad is started
\* exactly once, on the worker or on T0 and never both; no plugin is mapped
\* twice and no callback is appended twice.
C19_AsiLoadStartedOnce ==
    /\ Len(asi_starts) <= 1
    /\ create_result # "none" =>
          /\ Len(asi_starts) = 1
          /\ asi_starts[1] = asi_thread
          /\ asi_starts[1] = "T1" <=> create_result = "ok"
    /\ NoRepeat(MappedNames)
    /\ NoRepeat(initialise_vectors)

C19_Witness ==
    /\ create_result = "nopin"
    /\ asi_pc = "done"
    /\ Len(initialise_vectors) >= 2

----------------------------------------------------------------------------
(* C20 *)

\* C20: while the worker exists and has not finished the loader module holds
\* the extra reference; when CreateThread fails the reference is released
\* exactly once, after the synchronous load.
C20_ModulePin ==
    /\ mod_refs \in {0, 1}
    /\ (asi_thread = "T1" /\ asi_pc # "done") => mod_refs = 1
    /\ (create_result = "fail" /\ LoaderLock) => mod_refs = 1
    /\ (create_result = "fail" /\ dllmain_ret # "none") => mod_refs = 0
    /\ create_result = "nopin" => mod_refs = 0

C20_Witness ==
    /\ create_result = "fail"
    /\ dllmain_ret = "TRUE"
    /\ mod_refs = 0
    /\ mapped # <<>>

C20_WitnessWorker ==
    /\ asi_thread = "T1"
    /\ asi_pc = "load"
    /\ pc0 = "tr_fire"
    /\ mod_refs = 1

====
